---- MODULE Spec2Model ----
(***************************************************************************)
(* Model of the email distribution pipeline of app_script_review_sender    *)
(* (Code.ts): the send run of EmailProcessor.sendEmails over the pending   *)
(* sheet, template resolution, validation, rendering of body and subject,  *)
(* attachment gate, mail transport, attachment disposal and the archive    *)
(* step; template pre-application (applyTemplatesToPendingRows); and, on   *)
(* their own (SpecText), the text utilities sanitizeJsonText and           *)
(* parseSessionId.                                                         *)
(*                                                                         *)
(* Text is modelled as a sequence of chunks.  In a URL-like cell a chunk   *)
(* is a delimiter ("," or ";"), a blank (" "), a run of at least 25        *)
(* word/hyphen characters (the name of a Drive file, "F1", "B1", ...) or a *)
(* short word ("x").  In a recipient cell a chunk is one word, which is an *)
(* address ("a@x") or not ("junk").  The empty text is << >>.  Texts never *)
(* put two word chunks next to each other.                                 *)
(***************************************************************************)
EXTENDS Integers, Sequences, FiniteSets, TLC

(* ---------------------------- bounds ----------------------------------- *)
MaxRows == 2      \* rows of the pending sheet at the start
MaxRuns == 2      \* send runs in one behaviour
MaxFaults == 1    \* failures of the external services in one behaviour
MaxText == 3      \* chunks of a text a utility is called with

(* ------------------------ program constants ---------------------------- *)
MAX_ATTACHMENT_SIZE == 22020096   \* 21 * 1024 * 1024
DEFAULT_SUBJECT == <<"Your Subject Here">>

\* invocations of the script that can be in progress at the same time
Runners == {1, 2}

\* the invocation of the menu or the trigger when runs never overlap
Single == {1}

Blank == << >>
NoValue == <<"NULL">>             \* null / a thrown error of a helper

(* Drive files: attachments F1..F3 and the body templates B1..B3 *)
AttachmentFiles == {"F1", "F2", "F3"}
Files == AttachmentFiles \cup {"B1", "B2", "B3"}
FileSize(f) ==
  CASE f = "F1" -> MAX_ATTACHMENT_SIZE
    [] f = "F2" -> MAX_ATTACHMENT_SIZE + 1
    [] OTHER   -> 1024

Delimiters == {",", ";"}
Addresses == {"a@x", "b@x"}

(* the columns of distributions_to_send and distribution_templates *)
Headers == {"template_label", "distribution_emails", "additional_emails",
            "revu_session_invite", "template_values", "email_body_template",
            "attachments_urls", "email_subject_template", "subject_template_value"}

\* the same columns in sheet order
standardHeaders ==
  <<"template_label", "distribution_emails", "additional_emails",
    "revu_session_invite", "template_values", "email_body_template",
    "attachments_urls", "email_subject_template", "subject_template_value">>

Cells(l, d, a, b, u) ==
  [template_label |-> l, distribution_emails |-> d, additional_emails |-> a,
   revu_session_invite |-> << >>, template_values |-> << >>,
   email_body_template |-> b, attachments_urls |-> u,
   email_subject_template |-> << >>, subject_template_value |-> << >>]

\* a row with its session invite, template values and subject template
WithText(cells, invite, values, subject) ==
  [cells EXCEPT !.revu_session_invite = invite, !.template_values = values,
                !.email_subject_template = subject]

(* ------------------------------ helpers -------------------------------- *)
\* !cell
IsBlank(v) == v = Blank

\* variant: no row counts as empty
isEmptyRow_never(cells) == FALSE

\* row.every(cell => !cell)
isEmptyRow(cells) == \A h \in DOMAIN cells : IsBlank(cells[h])

\* SpreadsheetUtils.mapRowToObject(row, headers, []): every header gets the
\* cell's text, '' for a missing or falsy cell
mapRowToObject(cells, headers) ==
  [h \in headers |-> IF h \in DOMAIN cells THEN cells[h] ELSE Blank]

\* String.split(/[,;]+/)
RECURSIVE SplitFrom(_, _, _, _)
SplitFrom(s, cur, acc, inDelim) ==
  IF s = << >> THEN Append(acc, cur)
  ELSE IF Head(s) \in Delimiters
       THEN IF inDelim THEN SplitFrom(Tail(s), cur, acc, TRUE)
            ELSE SplitFrom(Tail(s), << >>, Append(acc, cur), TRUE)
       ELSE SplitFrom(Tail(s), Append(cur, Head(s)), acc, FALSE)
Split(s) == SplitFrom(s, << >>, << >>, FALSE)

\* String.trim()
RECURSIVE TrimLeft(_)
TrimLeft(s) == IF s # << >> /\ Head(s) = " " THEN TrimLeft(Tail(s)) ELSE s
RECURSIVE TrimRight(_)
TrimRight(s) ==
  IF s # << >> /\ s[Len(s)] = " " THEN TrimRight(SubSeq(s, 1, Len(s) - 1)) ELSE s
Trim(s) == TrimRight(TrimLeft(s))

\* variant: empty tokens are dropped
fileUrls_nonEmpty(text) ==
  SelectSeq([k \in 1..Len(Split(text)) |-> Trim(Split(text)[k])], LAMBDA u : u # << >>)

\* attachments_urls.split(/[,;]+/).map(url => url.trim())
fileUrls(text) == [k \in 1..Len(Split(text)) |-> Trim(Split(text)[k])]

\* FileUtils.extractFileId: the first run of 25 or more word characters,
\* NoValue for the thrown "Invalid Google Drive URL"
RECURSIVE extractFileId(_)
extractFileId(url) ==
  IF url = << >> THEN NoValue
  ELSE IF Head(url) \in Files THEN <<Head(url)>>
  ELSE extractFileId(Tail(url))

\* FileUtils.isFileTooLarge
isFileTooLarge(f, maxSize) == FileSize(f) > maxSize

\* input.toLowerCase(), one word
toLowerCase(word) == IF word = "A@X" THEN "a@x" ELSE word

\* EmailUtils.parseEmailAddresses: the words that are addresses, lower-cased,
\* in order
RECURSIVE parseEmailAddresses(_)
parseEmailAddresses(input) ==
  IF input = << >> THEN << >>
  ELSE IF toLowerCase(Head(input)) \in Addresses
       THEN <<toLowerCase(Head(input))>> \o parseEmailAddresses(Tail(input))
       ELSE parseEmailAddresses(Tail(input))

\* variant: every occurrence is kept
Unique_all(s, seen) == s

\* [...new Set(list)]: first occurrences, in order
RECURSIVE Unique(_, _)
Unique(s, seen) ==
  IF s = << >> THEN << >>
  ELSE IF Head(s) \in seen THEN Unique(Tail(s), seen)
       ELSE <<Head(s)>> \o Unique(Tail(s), seen \cup {Head(s)})

\* EmailUtils.combineEmailAddresses; << >> stands for null
combineEmailAddresses(s1, s2) ==
  Unique((IF IsBlank(s1) THEN << >> ELSE parseEmailAddresses(s1)) \o
         (IF IsBlank(s2) THEN << >> ELSE parseEmailAddresses(s2)), {})

(* --------------------------- text utilities ---------------------------- *)
(* A session invite is a sequence of words and blanks; a word holds a      *)
(* session id (ddd-ddd-ddd between word boundaries) or not.                *)
SessionIds == {"111-111-111", "222-222-222"}
InviteWords == SessionIds \cup {"(222-222-222)", "1111-111-111", "join"}

\* the match of /\b\d{3}-\d{3}-\d{3}\b/ in one word, NoValue for none
sessionIdIn(word) ==
  CASE word \in SessionIds -> <<word>>
    [] word = "(222-222-222)" -> <<"222-222-222">>
    [] OTHER -> NoValue

\* text.match(sessionIdRegex): the regex has no g flag, so the result holds
\* the first match only; << >> stands for null
RECURSIVE sessionMatches(_)
sessionMatches(text) ==
  IF text = << >> THEN << >>
  ELSE IF sessionIdIn(Head(text)) # NoValue THEN sessionIdIn(Head(text))
  ELSE sessionMatches(Tail(text))

\* the debug lines EmailUtils.parseSessionId writes
parseSessionIdLog(text) ==
  IF IsBlank(text) THEN {}
  ELSE IF sessionMatches(text) = << >> THEN {"No Bluebeam Session ID found"}
  ELSE {"Found session IDs"} \cup
       (IF Len(sessionMatches(text)) > 1 THEN {"Multiple different session IDs found"} ELSE {})

\* EmailUtils.parseSessionId; NoValue stands for null
parseSessionId(text) ==
  IF IsBlank(text) THEN NoValue
  ELSE IF sessionMatches(text) = << >> THEN NoValue
  ELSE <<sessionMatches(text)[1]>>

(* JSON text is a sequence of tokens: the braces, the comma, white space,  *)
(* a "key":"value" pair, a pair whose quotes are escaped (esc:, \"key\"),  *)
(* a pair whose quotes are escaped twice (esc2:, \\"key\\"), or text that  *)
(* is no JSON (junk).                                                      *)
PairTokens == {"pm=Ann", "pm=", "phase=A&B"}
EscapedPairs == {"esc:pm=Ann", "esc2:pm=Ann"}
JsonTokens == {"{", "}", ",", " ", "\n", "junk"} \cup PairTokens \cup EscapedPairs

KeyOf(pair) == IF pair = "phase=A&B" THEN "phase" ELSE "pm"
ValueOf(pair) ==
  CASE pair = "pm=Ann" -> <<"Ann">>
    [] pair = "pm=" -> << >>
    [] OTHER -> <<"A&B">>

\* .replace(/\\"/g, '"'): every backslash-quote loses its backslash, so a
\* quote escaped twice is left escaped once
unescapeQuotes(text) ==
  [k \in 1..Len(text) |->
     CASE text[k] = "esc:pm=Ann" -> "pm=Ann"
       [] text[k] = "esc2:pm=Ann" -> "esc:pm=Ann"
       [] OTHER -> text[k]]

\* .replace(/\\\\/g, '\\'): two backslashes become one
collapseBackslashes(text) ==
  [k \in 1..Len(text) |-> IF text[k] = "esc2:pm=Ann" THEN "esc:pm=Ann" ELSE text[k]]

\* .replace(/\r?\n/g, ' ')
replaceLineBreaks(text) ==
  [k \in 1..Len(text) |-> IF text[k] = "\n" THEN " " ELSE text[k]]

\* the three replacements in the order of the code
unescapeJson(text) == replaceLineBreaks(collapseBackslashes(unescapeQuotes(text)))

\* if (!cleaned.startsWith('{')) ...; if (!cleaned.endsWith('}')) ...
wrapBraces(text) ==
  LET opened == IF text # << >> /\ Head(text) = "{" THEN text ELSE <<"{">> \o text
  IN IF opened[Len(opened)] = "}" THEN opened ELSE Append(opened, "}")

stripSpace(text) == SelectSeq(text, LAMBDA c : c \notin {" ", "\n"})

\* JSON.parse of an object: the pairs in order, NoValue for a SyntaxError
JSONparse(text) ==
  LET t == stripSpace(text)
      inner == SubSeq(t, 2, Len(t) - 1)
  IN IF /\ Len(t) >= 2
        /\ t[1] = "{"
        /\ t[Len(t)] = "}"
        /\ \/ inner = << >>
           \/ /\ Len(inner) % 2 = 1
              /\ \A k \in 1..Len(inner) :
                   IF k % 2 = 1 THEN inner[k] \in PairTokens ELSE inner[k] = ","
     THEN SelectSeq(inner, LAMBDA c : c \in PairTokens)
     ELSE NoValue

\* the object of the pairs: a later pair of a key replaces an earlier one
toObject(pairs) ==
  [key \in {KeyOf(pairs[k]) : k \in 1..Len(pairs)} |->
     ValueOf(pairs[CHOOSE k \in 1..Len(pairs) :
               /\ KeyOf(pairs[k]) = key
               /\ \A j \in 1..Len(pairs) : KeyOf(pairs[j]) = key => j <= k])]

\* JSON.stringify(parsed): one pair per key, in the order of the first
\* occurrence of the key, with the value of its last occurrence
RECURSIVE stringifyFrom(_, _, _)
stringifyFrom(pairs, all, seen) ==
  IF pairs = << >> THEN << >>
  ELSE IF KeyOf(Head(pairs)) \in seen THEN stringifyFrom(Tail(pairs), all, seen)
  ELSE LET last == all[CHOOSE k \in 1..Len(all) :
                         /\ KeyOf(all[k]) = KeyOf(Head(pairs))
                         /\ \A j \in 1..Len(all) : KeyOf(all[j]) = KeyOf(Head(pairs)) => j <= k]
           rest == stringifyFrom(Tail(pairs), all, seen \cup {KeyOf(Head(pairs))})
       IN IF rest = << >> THEN <<last>> ELSE <<last, ",">> \o rest
JSONstringify(pairs) == <<"{">> \o stringifyFrom(pairs, pairs, {}) \o <<"}">>

\* TextUtils.sanitizeJsonText: the text handed to JSON.parse
cleanedJson(text) == wrapBraces(Trim(unescapeJson(text)))

\* TextUtils.sanitizeJsonText
sanitizeJsonText(text) ==
  IF IsBlank(text) THEN text
  ELSE IF JSONparse(cleanedJson(text)) = NoValue THEN <<"{", "}">>
  ELSE JSONstringify(JSONparse(cleanedJson(text)))

\* whether TextUtils.sanitizeJsonText logs 'Error sanitizing JSON text'
sanitizeJsonTextFails(text) ==
  ~IsBlank(text) /\ JSONparse(cleanedJson(text)) = NoValue

(* A template is a sequence of literal chunks and printing scriptlets.     *)
VarRefs == {"<?= pm ?>", "<?= phase ?>", "<?= sessionId ?>"}
VarOf(ref) ==
  CASE ref = "<?= pm ?>" -> "pm"
    [] ref = "<?= phase ?>" -> "phase"
    [] OTHER -> "sessionId"

\* the contextual escaping of a printing scriptlet
escapeHtml(value) ==
  [k \in 1..Len(value) |-> IF value[k] = "A&B" THEN "A&amp;B" ELSE value[k]]

\* TextUtils.decodeHtmlEntities
decodeHtmlEntities(text) ==
  [k \in 1..Len(text) |->
     CASE text[k] = "A&amp;B" -> "A&B"
       [] text[k] = "&amp;" -> "&"
       [] OTHER -> text[k]]

\* HtmlService.createTemplate(content), Object.assign(template, values),
\* template.evaluate().getContent(): a scriptlet that names a variable the
\* template object does not have throws a ReferenceError (NoValue)
RECURSIVE evaluateFrom(_, _)
evaluateFrom(content, values) ==
  IF content = << >> THEN << >>
  ELSE IF Head(content) \in VarRefs
       THEN escapeHtml(values[VarOf(Head(content))]) \o evaluateFrom(Tail(content), values)
       ELSE <<Head(content)>> \o evaluateFrom(Tail(content), values)

evaluateThrows(content, values) ==
  \E k \in 1..Len(content) : content[k] \in VarRefs /\ VarOf(content[k]) \notin DOMAIN values

evaluate(content, values) ==
  IF evaluateThrows(content, values) THEN NoValue ELSE evaluateFrom(content, values)

\* the content of the body template files
FileContent(f) ==
  CASE f = "B2" -> <<"Review", " ", "<?= sessionId ?>">>
    [] f = "B3" -> <<"<?= pm ?>", " ", "<?= phase ?>">>
    [] OTHER -> <<"Review">>

\* EmailBuilder.getTemplateValues
getTemplateValues(row) ==
  LET sanitized == sanitizeJsonText(row.template_values)
      values == IF IsBlank(sanitized) THEN toObject(<< >>) ELSE toObject(JSONparse(sanitized))
      sessionId == parseSessionId(row.revu_session_invite)
  IN IF sessionId # NoValue THEN ("sessionId" :> sessionId) @@ values ELSE values

\* EmailBuilder.buildEmailBody without the failures of Drive: NoValue for
\* the null of its catch
buildEmailBody(row) ==
  IF extractFileId(row.email_body_template) = NoValue THEN NoValue
  ELSE evaluate(FileContent(extractFileId(row.email_body_template)[1]), getTemplateValues(row))

\* variant: an evaluated subject that is empty is used as it is
getFinalSubject_noDefault(row) ==
  IF ~IsBlank(row.email_subject_template)
  THEN IF evaluate(row.email_subject_template, getTemplateValues(row)) = NoValue
       THEN DEFAULT_SUBJECT
       ELSE decodeHtmlEntities(Trim(evaluate(row.email_subject_template, getTemplateValues(row))))
  ELSE << >>

\* EmailBuilder.getFinalSubject
getFinalSubject(row) ==
  IF ~IsBlank(row.email_subject_template)
  THEN IF evaluate(row.email_subject_template, getTemplateValues(row)) = NoValue
       THEN DEFAULT_SUBJECT
       ELSE LET processedSubject ==
                  decodeHtmlEntities(Trim(evaluate(row.email_subject_template, getTemplateValues(row))))
            IN IF processedSubject = << >> THEN DEFAULT_SUBJECT ELSE processedSubject
  ELSE DEFAULT_SUBJECT

\* whether getFinalSubject logs 'Error building subject from template'
getFinalSubjectFails(row) ==
  ~IsBlank(row.email_subject_template)
  /\ evaluate(row.email_subject_template, getTemplateValues(row)) = NoValue

(* ---------------------- the distribution_templates sheet --------------- *)
TemplateSheet ==
  << Cells(<<"T1">>, <<"a@x">>, Blank, <<"B2">>, <<"F1">>),
     Cells(<<"T2">>, Blank, <<"junk">>, Blank, Blank) >>

\* TemplateManager.loadTemplateData: label -> row index, a later row of the
\* same label replaces an earlier one
templateLabelIndex(sheet) ==
  [l \in {sheet[k].template_label : k \in {j \in 1..Len(sheet) : ~IsBlank(sheet[j].template_label)}} |->
     CHOOSE k \in 1..Len(sheet) :
       /\ sheet[k].template_label = l
       /\ \A j \in 1..Len(sheet) : sheet[j].template_label = l => j <= k]

\* TemplateManager.getTemplateByLabel; NoValue stands for null
templateKnown(label) ==
  ~IsBlank(label) /\ label \in DOMAIN templateLabelIndex(TemplateSheet)

getTemplateByLabel(label) ==
  IF ~templateKnown(label)
  THEN NoValue
  ELSE [mapRowToObject(TemplateSheet[templateLabelIndex(TemplateSheet)[label]], Headers)
          EXCEPT !.template_label = label]

\* variant: a template value replaces the record's own value
mergeTemplate_overwrite(row, template) ==
  [k \in DOMAIN row \cup DOMAIN template |->
     IF k \in DOMAIN template /\ ~IsBlank(template[k])
     THEN template[k]
     ELSE IF k \in DOMAIN row THEN row[k] ELSE Blank]

\* EmailProcessor.applyTemplateIfNeeded for a found template: the loop
\*   for (key in template) if (!row[key] && template[key]) row[key] = template[key]
mergeTemplate(row, template) ==
  [k \in DOMAIN row \cup DOMAIN template |->
     IF k \in DOMAIN template /\ (k \notin DOMAIN row \/ IsBlank(row[k])) /\ ~IsBlank(template[k])
     THEN template[k]
     ELSE IF k \in DOMAIN row THEN row[k] ELSE Blank]

\* variant: a missing template is ignored and the row is used as it is
templateNotFound_never(row) == FALSE

\* EmailProcessor.applyTemplateIfNeeded throws "Template ... not found"
templateNotFound(row) ==
  ~IsBlank(row.template_label) /\ ~templateKnown(row.template_label)

\* EmailProcessor.applyTemplateIfNeeded when it returns
applyTemplateIfNeeded(row) ==
  IF IsBlank(row.template_label) \/ ~templateKnown(row.template_label) THEN row
  ELSE mergeTemplate(row, getTemplateByLabel(row.template_label))

\* EmailProcessor.validateRow
validateRow(row) ==
  /\ ~(IsBlank(row.distribution_emails) /\ IsBlank(row.additional_emails))
  /\ ~IsBlank(row.email_body_template)

(* --------------------------- input rows -------------------------------- *)
RowPool ==
  { \* an empty row
    Cells(Blank, Blank, Blank, Blank, Blank),
    \* two attachments, recipients in both fields, one of them twice; the
    \* subject template names a variable that has no value
    WithText(Cells(Blank, <<"a@x", "junk">>, <<"a@x", "b@x">>, <<"B1">>, <<"F1", ",", " ", "F3">>),
             Blank, Blank, <<"Review", " ", "<?= phase ?>">>),
    \* the second attachment is over the size limit
    Cells(Blank, <<"a@x">>, Blank, <<"B1">>, <<"F3", ";", "F2">>),
    \* a trailing delimiter
    Cells(Blank, <<"b@x">>, Blank, <<"B1">>, <<"F1", ",">>),
    \* blanks before a leading delimiter
    Cells(Blank, <<"a@x">>, Blank, <<"B1">>, <<" ", ";", "F3">>),
    \* no recipients, no template
    Cells(Blank, Blank, Blank, <<"B1">>, <<"F1">>),
    \* no body template
    Cells(Blank, <<"a@x">>, Blank, Blank, Blank),
    \* a body template URL without a file id
    Cells(Blank, Blank, <<"b@x">>, <<"x">>, Blank),
    \* recipients come from template T1, every other field is its own
    [WithText(Cells(<<"T1">>, Blank, Blank, <<"B1">>, <<"F3">>),
              <<"join", " ", "111-111-111">>, <<"phase=A&B">>, <<"<?= phase ?>", " ">>)
       EXCEPT !.subject_template_value = <<"x">>],
    \* template T2 has text but no address for the recipients
    Cells(<<"T2">>, Blank, Blank, <<"B1">>, Blank),
    \* a template that does not exist
    Cells(<<"T9">>, <<"a@x">>, Blank, <<"B1">>, <<"F1">>),
    \* the body template names a variable that has no value
    WithText(Cells(Blank, <<"a@x">>, Blank, <<"B3">>, Blank),
             Blank, <<"{", "pm=Ann", "}">>, <<"Review">>),
    \* the body prints the session id, the invite holds two different ids;
    \* no subject template
    WithText(Cells(Blank, <<"a@x">>, Blank, <<"B2">>, Blank),
             <<"join", " ", "(222-222-222)", " ", "111-111-111">>,
             <<"esc:pm=Ann", "\n">>, Blank),
    \* the subject template evaluates to blanks
    WithText(Cells(Blank, <<"b@x">>, Blank, <<"B1">>, Blank),
             Blank, <<"pm=">>, <<" ", "<?= pm ?>">>) }

Ids == 1..MaxRows
RunIds == 1..MaxRuns

(* ------------------------------- state --------------------------------- *)
VARIABLES
  pending,      \* data rows of distributions_to_send, in sheet order
  history,      \* data rows of sent_history, in sheet order
  trashed,      \* Drive files that are in the trash
  clock,        \* the time new Date() returns
  pc,           \* position of each run
  runOf,        \* number of the send run each runner executes, 0 for none
  data,         \* the snapshot getDataRange().getValues() of each run
  idx,          \* loop variable i of sendEmails (data row idx = sheet row idx + 1)
  emailRow,     \* the template-merged in-memory copy of the current row
  attachments,  \* the blobs getAttachments returned for the current row
  attachLog,    \* what getAttachments found for each URL it looked at
  sent,         \* what EmailUtils.sendEmail returned for the current row
  mailLog,      \* calls of GmailApp.sendEmail, in order
  trashLog,     \* calls of FileUtils.trashFile, in order
  errLog,       \* CustomLogger.error entries
  alertLog,     \* alerts shown by SpreadsheetApp.getUi().alert
  outcome,      \* how each row of each run ended
  runNo,        \* number of runs started
  histMark,     \* number of history rows when each run started
  faults,       \* number of failures of external services so far
  overlap,      \* whether a run has started while another was in progress
  text,         \* the text a utility is called with
  returned      \* what the last call of a utility returned and logged

vars == <<pending, history, trashed, clock, pc, runOf, histMark, data, idx, emailRow,
          attachments, attachLog, sent, mailLog, trashLog, errLog, alertLog,
          outcome, runNo, faults, overlap, text, returned>>

stores == <<pending, history, trashed, clock>>
logs == <<mailLog, trashLog, errLog, alertLog, attachLog>>

\* a row of the pending sheet: its cells, and the background and the note
\* of its template_label cell
\* no utility has been called
NoResult == [fn |-> "none", value |-> << >>, cleaned |-> << >>, log |-> {}]

InitialSheets ==
  UNION { { [k \in 1..n |-> [id |-> k, cells |-> c[k], background |-> << >>, note |-> << >>]] :
            c \in [1..n -> RowPool] } : n \in 0..MaxRows }

Init ==
  /\ pending \in InitialSheets
  /\ history = << >>
  /\ trashed = {}
  /\ clock = 1
  /\ pc = [p \in Runners |-> "idle"]
  /\ runOf = [p \in Runners |-> 0]
  /\ data = [p \in Runners |-> << >>]
  /\ idx = [p \in Runners |-> 0]
  /\ emailRow = [p \in Runners |-> NoValue]
  /\ attachments = [p \in Runners |-> << >>]
  /\ sent = [p \in Runners |-> FALSE]
  /\ mailLog = << >>
  /\ trashLog = << >>
  /\ errLog = {}
  /\ alertLog = {}
  /\ attachLog = {}
  /\ outcome = [r \in RunIds |-> [k \in Ids |-> "none"]]
  /\ runNo = 0
  /\ histMark = [p \in Runners |-> 0]
  /\ faults = 0
  /\ overlap = FALSE
  /\ text = << >>
  /\ returned = NoResult

(* --------------------- steps of one record of a run -------------------- *)
\* the data row the run is at, as read at the start of the run
Current(p) == data[p][idx[p]]

\* variant: the data index is taken for the sheet row
SheetRow_zeroBased(i) == i

\* sheet row of data[i]: the log and deleteRow use i + 1, where row 1 is the
\* header; position in pending = sheet row - 1
SheetRow(i) == i + 1

\* variant: the row is appended above the rows the sheet holds
appendRow_first(sheet, row) == <<row>> \o sheet

\* Sheet.appendRow(rowContents)
appendRow(sheet, row) == Append(sheet, row)

\* variant: the row stays in the sheet
deleteRow_none(sheet, rowIndex) == sheet

\* Sheet.deleteRow(rowIndex)
deleteRow(sheet, rowIndex) ==
  [k \in 1..(Len(sheet) - 1) |-> IF k < rowIndex - 1 THEN sheet[k] ELSE sheet[k + 1]]

\* variant: the merged in-memory copy is archived instead of the stored row
rowWithTimestamp_merged(rowData, date) ==
  [id |-> rowData.id,
   cells |-> applyTemplateIfNeeded(mapRowToObject(rowData.cells, Headers)),
   datetime |-> date]

\* [...rowData, new Date()]
rowWithTimestamp(rowData, date) ==
  [id |-> rowData.id, cells |-> rowData.cells, datetime |-> date]

\* variant: an error thrown for one row leaves the loop
afterCatch_abort(i) == 0

\* variant: the row that threw is taken up again
afterCatch_retry(i) == i

\* catch (error) { CustomLogger.error(...) } at the end of the loop body:
\* the loop goes on with i--
afterCatch(i) == i - 1

\* the run leaves the record: by continue or the end of the loop body, or
\* (thrown) through the catch of the loop body
NextRow(p, result, thrown) ==
  /\ outcome' = [outcome EXCEPT ![runOf[p]][Current(p).id] = result]
  /\ idx' = [idx EXCEPT ![p] = IF thrown THEN afterCatch(idx[p]) ELSE idx[p] - 1]
  /\ pc' = [pc EXCEPT ![p] = "loop"]
  /\ emailRow' = [emailRow EXCEPT ![p] = NoValue]
  /\ attachments' = [attachments EXCEPT ![p] = << >>]

\* an external service works (ok) or fails, within the budget of failures
Service(ok) ==
  /\ ~ok => faults < MaxFaults
  /\ faults' = IF ok THEN faults ELSE faults + 1

Logged(kind, p, detail) ==
  [run |-> runOf[p], id |-> Current(p).id, kind |-> kind, detail |-> detail]

\* processEmailDistributions: new EmailProcessor().sendEmails(), up to the
\* snapshot of the pending sheet
StartRun(p) ==
  /\ pc[p] = "idle"
  /\ runNo < MaxRuns
  /\ runNo' = runNo + 1
  /\ runOf' = [runOf EXCEPT ![p] = runNo + 1]
  /\ histMark' = [histMark EXCEPT ![p] = Len(history)]
  /\ data' = [data EXCEPT ![p] = pending]
  /\ idx' = [idx EXCEPT ![p] = Len(pending)]
  /\ pc' = [pc EXCEPT ![p] = "loop"]
  /\ overlap' = (overlap \/ \E q \in Runners \ {p} : pc[q] # "idle")
  /\ UNCHANGED <<text, returned, stores, logs, emailRow, attachments, sent, outcome, faults>>

\* processEmailDistributions: SpreadsheetApp.openById throws in the
\* constructor of EmailProcessor; the catch of processEmailDistributions
\* calls CustomLogger.error and the function returns
OpenFailed(p) ==
  /\ pc[p] = "idle"
  /\ runNo < MaxRuns
  /\ Service(FALSE)
  /\ runNo' = runNo + 1
  /\ errLog' = errLog \cup {[run |-> runNo + 1, id |-> 0, kind |-> "open", detail |-> << >>]}
  /\ UNCHANGED <<text, returned, overlap, stores, mailLog, trashLog, alertLog, attachLog, pc, runOf,
                 histMark, data, idx, emailRow, attachments, sent, outcome>>

\* the loop condition i >= 1 fails
EndRun(p) ==
  /\ pc[p] = "loop"
  /\ idx[p] < 1
  /\ pc' = [pc EXCEPT ![p] = "idle"]
  /\ UNCHANGED <<text, returned, overlap, stores, logs, runOf, histMark, data, sent, idx, emailRow, attachments, outcome, runNo, faults>>

\* if (row.every(cell => !cell)) continue
SkipEmptyRow(p) ==
  /\ pc[p] = "loop"
  /\ idx[p] >= 1
  /\ isEmptyRow(Current(p).cells)
  /\ NextRow(p, "empty", FALSE)
  /\ UNCHANGED <<text, returned, overlap, stores, logs, runOf, histMark, data, sent, runNo, faults>>

\* applyTemplateIfNeeded throws: log, alert, continue.  The alert itself
\* can throw (no UI in a time-based trigger); the outer catch logs that.
TemplateError(p) ==
  /\ pc[p] = "loop"
  /\ idx[p] >= 1
  /\ ~isEmptyRow(Current(p).cells)
  /\ templateNotFound(mapRowToObject(Current(p).cells, Headers))
  /\ \E ok \in BOOLEAN :
       /\ Service(ok)
       /\ alertLog' = IF ok THEN alertLog \cup {Logged("template", p, Current(p).cells.template_label)}
                      ELSE alertLog
       /\ errLog' = errLog \cup {Logged("template", p, Current(p).cells.template_label)}
                           \cup (IF ok THEN {} ELSE {Logged("row", p, <<"alert">>)})
       /\ NextRow(p, "template", ~ok)
  /\ UNCHANGED <<text, returned, overlap, stores, mailLog, trashLog, attachLog, runOf, histMark, data, sent, runNo>>

\* applyTemplateIfNeeded returns the merged copy
TemplateResolved(p) ==
  /\ pc[p] = "loop"
  /\ idx[p] >= 1
  /\ ~isEmptyRow(Current(p).cells)
  /\ ~templateNotFound(mapRowToObject(Current(p).cells, Headers))
  /\ emailRow' = [emailRow EXCEPT ![p] = applyTemplateIfNeeded(mapRowToObject(Current(p).cells, Headers))]
  /\ pc' = [pc EXCEPT ![p] = "validate"]
  /\ UNCHANGED <<text, returned, overlap, stores, logs, runOf, histMark, data, sent, idx, attachments, outcome, runNo, faults>>

\* processRow: validateRow fails, return false
ValidationFailed(p) ==
  /\ pc[p] = "validate"
  /\ ~validateRow(emailRow[p])
  /\ NextRow(p, "validation", FALSE)
  /\ UNCHANGED <<text, returned, overlap, stores, logs, runOf, histMark, data, sent, runNo, faults>>

\* processRow: validateRow passes, new EmailBuilder(row).sendEmail()
Validated(p) ==
  /\ pc[p] = "validate"
  /\ validateRow(emailRow[p])
  /\ pc' = [pc EXCEPT ![p] = "build"]
  /\ UNCHANGED <<text, returned, overlap, stores, logs, runOf, histMark, data, sent, idx, emailRow, attachments, outcome, runNo, faults>>

\* EmailBuilder.sendEmail: recipients
recipientsOf(row) == combineEmailAddresses(row.distribution_emails, row.additional_emails)

\* variant: the check of the combined recipients is missing
hasRecipients_any(recipients) == TRUE

\* if (!recipients) return false
hasRecipients(recipients) == recipients # << >>

\* EmailBuilder.sendEmail: no valid email addresses found, return false
NoRecipients(p) ==
  /\ pc[p] = "build"
  /\ ~hasRecipients(recipientsOf(emailRow[p]))
  /\ NextRow(p, "norecipients", FALSE)
  /\ UNCHANGED <<text, returned, overlap, stores, logs, runOf, histMark, data, sent, runNo, faults>>

\* if (!emailBody): null of the catch, or an empty body
hasBody(body) == body # NoValue /\ body # << >>

\* EmailBuilder.buildEmailBody: the template file is fetched and evaluated;
\* an invalid URL, an unreachable file or an evaluator error gives null
BuildEmailBody(p) ==
  /\ pc[p] = "build"
  /\ hasRecipients(recipientsOf(emailRow[p]))
  /\ \E ok \in BOOLEAN :
       /\ extractFileId(emailRow[p].email_body_template) = NoValue => ok
       /\ Service(ok)
       /\ IF ok /\ hasBody(buildEmailBody(emailRow[p]))
          THEN /\ pc' = [pc EXCEPT ![p] = "attach"]
               /\ UNCHANGED <<errLog, idx, emailRow, attachments, outcome>>
          ELSE /\ errLog' = errLog \cup {Logged("body", p, emailRow[p].email_body_template)}
               /\ NextRow(p, "body", FALSE)
  /\ UNCHANGED <<text, returned, overlap, stores, mailLog, trashLog, alertLog, attachLog, runOf, histMark, data, sent, runNo>>

\* the URLs getAttachments and trashAttachments walk through
urlsOf(row) ==
  IF IsBlank(row.attachments_urls) THEN << >> ELSE fileUrls(row.attachments_urls)

\* the files the URLs name
filesOf(urls) ==
  {extractFileId(urls[k])[1] : k \in {j \in 1..Len(urls) : extractFileId(urls[j]) # NoValue}}

\* EmailBuilder.getAttachments, one URL: extractFileId, isFileTooLarge,
\* getFileBlob; down is the set of files Drive cannot reach
attachStatus(url, down) ==
  IF extractFileId(url) = NoValue THEN "invalid"
  ELSE IF extractFileId(url)[1] \in down THEN "unreachable"
  ELSE IF isFileTooLarge(extractFileId(url)[1], MAX_ATTACHMENT_SIZE) THEN "toolarge"
  ELSE "ok"

\* variant: only an invalid URL throws, a file that cannot be fetched or is
\* too large is left out of the mail
attachThrows_invalidOnly(status) == status = "invalid"

\* the catch of getAttachments re-throws
attachThrows(status) == status # "ok"

\* EmailBuilder.getAttachments: the URLs looked at, up to the first that throws
RECURSIVE attachScan(_, _)
attachScan(urls, down) ==
  IF urls = << >> THEN << >>
  ELSE IF attachThrows(attachStatus(Head(urls), down))
       THEN << [url |-> Head(urls), status |-> attachStatus(Head(urls), down)] >>
       ELSE << [url |-> Head(urls), status |-> attachStatus(Head(urls), down)] >>
            \o attachScan(Tail(urls), down)

\* the blobs pushed to the attachment list
blobsOf(scan) ==
  LET okAt == {k \in 1..Len(scan) : scan[k].status = "ok"}
      RECURSIVE Pick(_)
      Pick(k) == IF k > Len(scan) THEN << >>
                 ELSE IF k \in okAt THEN <<extractFileId(scan[k].url)[1]>> \o Pick(k + 1)
                 ELSE Pick(k + 1)
  IN Pick(1)

scanThrew(scan) == scan # << >> /\ attachThrows(scan[Len(scan)].status)

\* EmailBuilder.getAttachments, called by sendEmail; its throw leaves
\* sendEmail and processRow and is logged by the catch of sendEmails
GetAttachments(p) ==
  /\ pc[p] = "attach"
  /\ \E down \in {{}} \cup {{f} : f \in filesOf(urlsOf(emailRow[p]))} :
       LET scan == attachScan(urlsOf(emailRow[p]), down) IN
       /\ Service(down = {})
       /\ attachLog' = attachLog \cup
            {[run |-> runOf[p], id |-> Current(p).id, k |-> k,
              url |-> scan[k].url, status |-> scan[k].status] : k \in 1..Len(scan)}
       /\ IF scanThrew(scan)
          THEN /\ errLog' = errLog \cup {Logged("attachment", p, scan[Len(scan)].url),
                                         Logged("row", p, <<"attachment">>)}
               /\ NextRow(p, "attachment", TRUE)
          ELSE /\ attachments' = [attachments EXCEPT ![p] = blobsOf(scan)]
               /\ pc' = [pc EXCEPT ![p] = "send"]
               /\ UNCHANGED <<errLog, idx, emailRow, outcome>>
  /\ UNCHANGED <<text, returned, overlap, stores, mailLog, trashLog, alertLog, runOf, histMark, data, sent, runNo>>

\* variant: the attachments are trashed whatever the transport reported
shouldTrash_always(wasSent) == TRUE

\* if (sent) this.trashAttachments()
shouldTrash(wasSent) == wasSent

\* EmailBuilder.getFinalSubject, then EmailUtils.sendEmail: GmailApp.sendEmail
\* returns (true) or throws (caught, logged, false)
SendEmail(p) ==
  /\ pc[p] = "send"
  /\ \E ok \in BOOLEAN :
       /\ Service(ok)
       /\ mailLog' = Append(mailLog,
            [run |-> runOf[p], id |-> Current(p).id, to |-> recipientsOf(emailRow[p]),
             subject |-> getFinalSubject(emailRow[p]), body |-> buildEmailBody(emailRow[p]),
             attachments |-> attachments[p], sent |-> ok])
       /\ errLog' = errLog
            \cup (IF getFinalSubjectFails(emailRow[p])
                  THEN {Logged("subject", p, emailRow[p].email_subject_template)} ELSE {})
            \cup (IF ok THEN {} ELSE {Logged("send", p, << >>)})
       /\ sent' = [sent EXCEPT ![p] = ok]
  /\ pc' = [pc EXCEPT ![p] = "sent"]
  /\ UNCHANGED <<text, returned, overlap, stores, trashLog, alertLog, attachLog, runOf, histMark, data, idx, emailRow,
                 attachments, outcome, runNo>>

\* variant: trashFile lets the error out, which ends trashAttachments
RECURSIVE trashResults_abort(_, _)
trashResults_abort(urls, failing) ==
  IF urls = << >> THEN << >>
  ELSE IF extractFileId(Head(urls)) = NoValue
       THEN << [file |-> NoValue, ok |-> FALSE] >>
       ELSE IF extractFileId(Head(urls))[1] \in failing
       THEN << [file |-> extractFileId(Head(urls)), ok |-> FALSE] >>
       ELSE << [file |-> extractFileId(Head(urls)), ok |-> TRUE] >>
            \o trashResults_abort(Tail(urls), failing)

\* FileUtils.trashFile of every URL: setTrashed succeeds, or throws and
\* trashFile catches it and returns false; failing is the set of files whose
\* setTrashed throws
RECURSIVE trashResults(_, _)
trashResults(urls, failing) ==
  IF urls = << >> THEN << >>
  ELSE IF extractFileId(Head(urls)) = NoValue
       THEN << [file |-> NoValue, ok |-> FALSE] >> \o trashResults(Tail(urls), failing)
       ELSE << [file |-> extractFileId(Head(urls)), ok |-> extractFileId(Head(urls))[1] \notin failing] >>
            \o trashResults(Tail(urls), failing)

\* EmailBuilder.trashAttachments, called when sent
TrashAttachments(p) ==
  /\ pc[p] = "sent"
  /\ shouldTrash(sent[p])
  /\ \E failing \in SUBSET filesOf(urlsOf(emailRow[p])) :
       LET res == trashResults(urlsOf(emailRow[p]), failing) IN
       /\ Service(failing = {})
       /\ trashLog' = trashLog \o
            [k \in 1..Len(res) |-> [run |-> runOf[p], id |-> Current(p).id,
                                    file |-> res[k].file, ok |-> res[k].ok]]
       /\ trashed' = trashed \cup {res[k].file[1] : k \in {j \in 1..Len(res) : res[j].ok}}
       /\ errLog' = errLog \cup {Logged("trash", p, res[k].file) : k \in {j \in 1..Len(res) : ~res[j].ok}}
  /\ pc' = [pc EXCEPT ![p] = "processed"]
  /\ UNCHANGED <<text, returned, overlap, pending, history, clock, mailLog, alertLog, attachLog, runOf, histMark, data, idx,
                 emailRow, attachments, sent, outcome, runNo>>

\* sendEmail has returned
Returned(p) == pc[p] = "processed" \/ (pc[p] = "sent" /\ ~shouldTrash(sent[p]))

\* processRow returned false after the transport failed
SendFailed(p) ==
  /\ Returned(p)
  /\ ~sent[p]
  /\ NextRow(p, "transport", FALSE)
  /\ sent' = [sent EXCEPT ![p] = FALSE]
  /\ UNCHANGED <<text, returned, overlap, stores, logs, runOf, histMark, data, runNo, faults>>

\* moveRowToHistory: historySheet.appendRow(rowWithTimestamp); a throw is
\* logged by the catch of sendEmails and the run goes on
AppendHistory(p) ==
  /\ Returned(p)
  /\ sent[p]
  /\ \E ok \in BOOLEAN :
       /\ Service(ok)
       /\ IF ok
          THEN /\ history' = appendRow(history, rowWithTimestamp(Current(p), clock))
               /\ clock' = clock + 1
               /\ pc' = [pc EXCEPT ![p] = "delete"]
               /\ UNCHANGED <<errLog, idx, emailRow, attachments, sent, outcome>>
          ELSE /\ errLog' = errLog \cup {Logged("row", p, <<"appendRow">>)}
               /\ NextRow(p, "appendError", TRUE)
               /\ sent' = [sent EXCEPT ![p] = FALSE]
               /\ UNCHANGED <<history, clock>>
  /\ UNCHANGED <<text, returned, overlap, pending, trashed, mailLog, trashLog, alertLog, attachLog, runOf, histMark, data, runNo>>

\* moveRowToHistory: sourceSheet.deleteRow(rowIndex); a row index past the
\* last row, or a failure of the store, throws
DeleteRow(p) ==
  /\ pc[p] = "delete"
  /\ \E ok \in BOOLEAN :
       /\ SheetRow(idx[p]) - 1 > Len(pending) => ok
       /\ Service(ok)
       /\ IF ok /\ SheetRow(idx[p]) - 1 \in 1..Len(pending)
          THEN /\ pending' = deleteRow(pending, SheetRow(idx[p]))
               /\ NextRow(p, "archived", FALSE)
               /\ UNCHANGED errLog
          ELSE /\ errLog' = errLog \cup {Logged("row", p, <<"deleteRow">>)}
               /\ NextRow(p, "deleteError", TRUE)
               /\ UNCHANGED pending
  /\ sent' = [sent EXCEPT ![p] = FALSE]
  /\ UNCHANGED <<text, returned, overlap, history, trashed, clock, mailLog, trashLog, alertLog, attachLog, runOf, histMark, data, runNo>>

(* ------------------------ template pre-application --------------------- *)
\* variant: a template value is written whatever the cell holds
shouldWrite_always(cell, value) == ~IsBlank(value)

\* if ((!row[columnIndex] || row[columnIndex] === '') && template[key])
shouldWrite(cell, value) == IsBlank(cell) /\ ~IsBlank(value)

\* the writes applyTemplatesToPendingRows makes for data row k, in order:
\* nothing for a row without template_label, setBackground and setNote for a
\* label without template, one setValue per empty cell the template fills
rowWrites(k, cells) ==
  LET row == mapRowToObject(cells, Headers) IN
  IF IsBlank(row.template_label) THEN << >>
  ELSE IF ~templateKnown(row.template_label)
  THEN << [row |-> k, column |-> "template_label", kind |-> "background", value |-> <<"#ffcccc">>],
          [row |-> k, column |-> "template_label", kind |-> "note", value |-> row.template_label] >>
  ELSE LET template == getTemplateByLabel(row.template_label)
           keys == SelectSeq(standardHeaders, LAMBDA h : shouldWrite(cells[h], template[h]))
       IN [j \in 1..Len(keys) |->
             [row |-> k, column |-> keys[j], kind |-> "value", value |-> template[keys[j]]]]

\* variant: the loop ends at the first row whose template is missing
RECURSIVE sheetWrites_halt(_, _)
sheetWrites_halt(rows, i) ==
  IF i > Len(rows) THEN << >>
  ELSE IF templateNotFound(mapRowToObject(rows[i].cells, Headers))
       THEN rowWrites(i, rows[i].cells)
       ELSE rowWrites(i, rows[i].cells) \o sheetWrites_halt(rows, i + 1)

\* for (let i = 1; i < data.length; i++): the writes of the whole batch
RECURSIVE sheetWrites(_, _)
sheetWrites(rows, i) ==
  IF i > Len(rows) THEN << >>
  ELSE rowWrites(i, rows[i].cells) \o sheetWrites(rows, i + 1)

\* Range.setValue, Range.setBackground, Range.setNote
applyWrite(sheet, w) ==
  [sheet EXCEPT ![w.row] =
     CASE w.kind = "value" -> [@ EXCEPT !.cells = [@ EXCEPT ![w.column] = w.value]]
       [] w.kind = "background" -> [@ EXCEPT !.background = w.value]
       [] OTHER -> [@ EXCEPT !.note = w.value]]

RECURSIVE applyWrites(_, _)
applyWrites(sheet, writes) ==
  IF writes = << >> THEN sheet
  ELSE applyWrites(applyWrite(sheet, Head(writes)), Tail(writes))

\* applyTemplatesToPendingRows(): new EmailProcessor().applyTemplatesToPendingRows();
\* a write that throws ends the handler, the writes before it stay
ApplyTemplatesToPendingRows(p) ==
  /\ pc[p] = "idle"
  /\ LET writes == sheetWrites(pending, 1) IN
     \E n \in 0..Len(writes) :
       /\ Service(n = Len(writes))
       /\ pending' = applyWrites(pending, SubSeq(writes, 1, n))
       /\ alertLog' =
            IF n = Len(writes) /\ \E k \in 1..Len(writes) : writes[k].kind = "background"
            THEN alertLog \cup {[run |-> 0, id |-> 0, kind |-> "applyTemplates", detail |-> << >>]}
            ELSE alertLog
       /\ errLog' =
            IF n < Len(writes)
            THEN errLog \cup {[run |-> 0, id |-> writes[n + 1].row, kind |-> "applyTemplates",
                               detail |-> <<writes[n + 1].column>>]}
            ELSE errLog
  /\ runOf' = [runOf EXCEPT ![p] = 0]
  /\ data' = [data EXCEPT ![p] = pending]
  /\ idx' = [idx EXCEPT ![p] = 0]
  /\ UNCHANGED <<text, returned, overlap, history, trashed, clock, pc, emailRow, attachments, attachLog, sent, mailLog,
                 trashLog, outcome, runNo, histMark>>

(* --------------------------- specification ----------------------------- *)
Next ==
  \/ \E p \in Single : StartRun(p)
  \/ \E p \in Single : OpenFailed(p)
  \/ \E p \in Single : EndRun(p)
  \/ \E p \in Single : SkipEmptyRow(p)
  \/ \E p \in Single : TemplateError(p)
  \/ \E p \in Single : TemplateResolved(p)
  \/ \E p \in Single : ValidationFailed(p)
  \/ \E p \in Single : Validated(p)
  \/ \E p \in Single : NoRecipients(p)
  \/ \E p \in Single : BuildEmailBody(p)
  \/ \E p \in Single : GetAttachments(p)
  \/ \E p \in Single : SendEmail(p)
  \/ \E p \in Single : TrashAttachments(p)
  \/ \E p \in Single : SendFailed(p)
  \/ \E p \in Single : AppendHistory(p)
  \/ \E p \in Single : DeleteRow(p)
  \/ \E p \in Single : ApplyTemplatesToPendingRows(p)

Spec == Init /\ [][Next]_vars

\* the rows of a pending sheet two send runs work on at the same time
OverlapPool ==
  { Cells(Blank, Blank, Blank, Blank, Blank),
    Cells(Blank, <<"a@x">>, Blank, <<"B1">>, Blank),
    Cells(Blank, Blank, Blank, <<"B1">>, <<"F1">>),
    Cells(<<"T2">>, Blank, Blank, <<"B1">>, Blank),
    Cells(<<"T9">>, <<"a@x">>, Blank, <<"B1">>, <<"F1">>) }

OverlapSheets ==
  UNION { { [k \in 1..n |-> [id |-> k, cells |-> c[k], background |-> << >>, note |-> << >>]] :
            c \in [1..n -> OverlapPool] } : n \in 0..MaxRows }

InitOverlap ==
  /\ pending \in OverlapSheets
  /\ history = << >>
  /\ trashed = {}
  /\ clock = 1
  /\ pc = [p \in Runners |-> "idle"]
  /\ runOf = [p \in Runners |-> 0]
  /\ data = [p \in Runners |-> << >>]
  /\ idx = [p \in Runners |-> 0]
  /\ emailRow = [p \in Runners |-> NoValue]
  /\ attachments = [p \in Runners |-> << >>]
  /\ sent = [p \in Runners |-> FALSE]
  /\ mailLog = << >>
  /\ trashLog = << >>
  /\ errLog = {}
  /\ alertLog = {}
  /\ attachLog = {}
  /\ outcome = [r \in RunIds |-> [k \in Ids |-> "none"]]
  /\ runNo = 0
  /\ histMark = [p \in Runners |-> 0]
  /\ faults = 0
  /\ overlap = FALSE
  /\ text = << >>
  /\ returned = NoResult

\* nothing keeps a second invocation of processEmailDistributions from
\* starting while the first is in progress: every step of a send run can be
\* a step of either
NextOverlap ==
  \/ \E p \in Runners : StartRun(p)
  \/ \E p \in Runners : EndRun(p)
  \/ \E p \in Runners : SkipEmptyRow(p)
  \/ \E p \in Runners : TemplateError(p)
  \/ \E p \in Runners : TemplateResolved(p)
  \/ \E p \in Runners : ValidationFailed(p)
  \/ \E p \in Runners : Validated(p)
  \/ \E p \in Runners : NoRecipients(p)
  \/ \E p \in Runners : BuildEmailBody(p)
  \/ \E p \in Runners : GetAttachments(p)
  \/ \E p \in Runners : SendEmail(p)
  \/ \E p \in Runners : TrashAttachments(p)
  \/ \E p \in Runners : SendFailed(p)
  \/ \E p \in Runners : AppendHistory(p)
  \/ \E p \in Runners : DeleteRow(p)

SpecOverlap == InitOverlap /\ [][NextOverlap]_vars

(* ------------------- the text utilities on their own ------------------- *)
SeqsUpTo(S, n) == UNION {[1..k -> S] : k \in 0..n}

\* texts of a template_values cell
JsonTexts == SeqsUpTo(JsonTokens, MaxText)

\* texts of a revu_session_invite cell: words with blanks between them
InviteTexts ==
  {t \in SeqsUpTo(InviteWords \cup {" "}, MaxText) :
     \A k \in 1..(Len(t) - 1) : t[k] = " " \/ t[k + 1] = " "}

\* texts of a recipient cell: one word per chunk
RecipientWords == Addresses \cup {"A@X", "junk"}
RecipientTexts == SeqsUpTo(RecipientWords, MaxText)

pipeline == <<pending, history, trashed, clock, pc, runOf, histMark, data, idx, emailRow,
              attachments, attachLog, sent, mailLog, trashLog, errLog, alertLog,
              outcome, runNo, faults, overlap>>

InitText ==
  /\ pending = << >>
  /\ history = << >>
  /\ trashed = {}
  /\ clock = 1
  /\ pc = [p \in Runners |-> "idle"]
  /\ runOf = [p \in Runners |-> 0]
  /\ data = [p \in Runners |-> << >>]
  /\ idx = [p \in Runners |-> 0]
  /\ emailRow = [p \in Runners |-> NoValue]
  /\ attachments = [p \in Runners |-> << >>]
  /\ sent = [p \in Runners |-> FALSE]
  /\ mailLog = << >>
  /\ trashLog = << >>
  /\ errLog = {}
  /\ alertLog = {}
  /\ attachLog = {}
  /\ outcome = [r \in RunIds |-> [k \in Ids |-> "none"]]
  /\ runNo = 0
  /\ histMark = [p \in Runners |-> 0]
  /\ faults = 0
  /\ overlap = FALSE
  /\ text \in JsonTexts \cup InviteTexts \cup RecipientTexts
  /\ returned = NoResult

\* TextUtils.sanitizeJsonText(text)
CallSanitizeJsonText ==
  /\ text \in JsonTexts
  /\ returned' = [fn |-> "sanitizeJsonText", value |-> sanitizeJsonText(text),
                cleaned |-> IF IsBlank(text) THEN << >> ELSE cleanedJson(text),
                log |-> IF sanitizeJsonTextFails(text) THEN {"Error sanitizing JSON text"} ELSE {}]
  /\ UNCHANGED <<text, pipeline>>

\* EmailUtils.parseSessionId(text)
CallParseSessionId ==
  /\ text \in InviteTexts
  /\ returned' = [fn |-> "parseSessionId", value |-> parseSessionId(text),
                cleaned |-> << >>, log |-> parseSessionIdLog(text)]
  /\ UNCHANGED <<text, pipeline>>

\* EmailUtils.combineEmailAddresses(text, text)
CallCombineEmailAddresses ==
  /\ text \in RecipientTexts
  /\ returned' = [fn |-> "combineEmailAddresses", value |-> combineEmailAddresses(text, text),
                cleaned |-> << >>, log |-> {}]
  /\ UNCHANGED <<text, pipeline>>

NextText ==
  \/ CallSanitizeJsonText
  \/ CallParseSessionId
  \/ CallCombineEmailAddresses

SpecText == InitText /\ [][NextText]_vars

(* ------------------------- vocabulary of the claims -------------------- *)
\* data rows of the snapshot the send run has left behind
Visited(p) == IF runOf[p] = 0 THEN {} ELSE (idx[p] + 1)..Len(data[p])

\* the in-memory copy the run builds of a stored row
Merged(row) == applyTemplateIfNeeded(mapRowToObject(row.cells, Headers))

\* history rows appended since the run started
NewHistoryOf(p, id) == {j \in (histMark[p] + 1)..Len(history) : history[j].id = id}

PendingAt(id) == {j \in 1..Len(pending) : pending[j].id = id}

MailsOf(r, id) == {j \in 1..Len(mailLog) : mailLog[j].run = r /\ mailLog[j].id = id}
SentOk(r, id) == \E j \in MailsOf(r, id) : mailLog[j].sent

TrashesOf(r, id) == {j \in 1..Len(trashLog) : trashLog[j].run = r /\ trashLog[j].id = id}

FailedOutcomes == {"template", "validation", "norecipients", "body", "attachment", "transport"}
StoreFailures == {"appendError", "deleteError"}

RunDone(p) == runOf[p] >= 1 /\ pc[p] = "idle"

(* ------------------------------ claims --------------------------------- *)

\* C1: a record whose send succeeded gets exactly one new History row, made
\* of the fields as stored in the pending sheet plus a timestamp, appended
\* while the record is still pending (unless the append itself fails); once
\* the record is archived it is in History and gone from Pending.
C1_ArchiveOriginalThenDelete ==
  \A p \in Runners : runOf[p] >= 1 =>
    /\ pc[p] = "delete" =>
         /\ Cardinality(NewHistoryOf(p, Current(p).id)) = 1
         /\ history[Len(history)].id = Current(p).id
         /\ history[Len(history)].cells = Current(p).cells
         /\ PendingAt(Current(p).id) # {}
    /\ \A k \in Visited(p) :
         LET row == data[p][k] IN
         /\ (SentOk(runOf[p], row.id) /\ outcome[runOf[p]][row.id] # "appendError") =>
              /\ Cardinality(NewHistoryOf(p, row.id)) = 1
              /\ \A j \in NewHistoryOf(p, row.id) :
                   /\ history[j].cells = row.cells
                   /\ DOMAIN history[j] = {"id", "cells", "datetime"}
                   /\ history[j].datetime \in 1..clock
         /\ (SentOk(runOf[p], row.id) /\ outcome[runOf[p]][row.id] \notin StoreFailures) =>
              /\ outcome[runOf[p]][row.id] = "archived"
              /\ PendingAt(row.id) = {}
         /\ ~SentOk(runOf[p], row.id) => NewHistoryOf(p, row.id) = {}

C1_Witness ==
  \E p \in Runners : \E k \in Visited(p) :
    /\ outcome[runOf[p]][data[p][k].id] = "archived"
    /\ Merged(data[p][k]) # mapRowToObject(data[p][k].cells, Headers)
    /\ NewHistoryOf(p, data[p][k].id) # {}

C3_RunNeverStops ==
  \A p \in Runners : runOf[p] >= 1 =>
    /\ \A k \in Visited(p) : outcome[runOf[p]][data[p][k].id] # "none"
    /\ pc[p] = "idle" => idx[p] = 0
    /\ \A k \in 1..Len(data[p]) :
         isEmptyRow(data[p][k].cells) /\ k \in Visited(p) => outcome[runOf[p]][data[p][k].id] = "empty"

C3_Witness ==
  \E p \in Runners :
    /\ RunDone(p)
    /\ Len(data[p]) >= 2
    /\ outcome[runOf[p]][data[p][Len(data[p])].id] \in {"attachment", "appendError", "deleteError"}
    /\ outcome[runOf[p]][data[p][1].id] = "archived"

\* C4: a delete by position removes exactly the record that was just sent,
\* and leaves every row not yet visited at its snapshot position.
C4_DeleteHitsSentRow ==
  [][\A p \in Runners :
       (pc[p] = "delete" /\ pending' # pending) =>
         /\ mailLog # << >>
         /\ mailLog[Len(mailLog)].id = Current(p).id
         /\ mailLog[Len(mailLog)].run = runOf[p]
         /\ mailLog[Len(mailLog)].sent
         /\ Len(pending') = Len(pending) - 1
         /\ {pending[j].id : j \in 1..Len(pending)} \ {pending'[j].id : j \in 1..Len(pending')}
              = {Current(p).id}
         /\ \A k \in 1..(idx[p] - 1) : k <= Len(pending') /\ pending'[k] = data[p][k]]_vars

C4_Witness ==
  \E p \in Runners :
    /\ pc[p] = "loop"
    /\ idx[p] >= 1
    /\ idx[p] < Len(data[p])
    /\ outcome[runOf[p]][data[p][idx[p] + 1].id] = "archived"
    /\ pending[idx[p]] = data[p][idx[p]]

\* the stored row of the snapshot with this id
RowOf(p, id) == data[p][CHOOSE k \in 1..Len(data[p]) : data[p][k].id = id]

\* C5: a mail is handed to the transport only with one blob per URL of
\* attachments_urls, each extracted, reachable and within the ceiling; a
\* record one of whose URLs failed gets no mail in the run and stays pending.
C5_AllAttachmentsOrNoSend ==
  \A p \in Runners : runOf[p] >= 1 =>
    /\ \A j \in 1..Len(mailLog) :
         mailLog[j].run = runOf[p] =>
           LET urls == urlsOf(Merged(RowOf(p, mailLog[j].id))) IN
           /\ Len(mailLog[j].attachments) = Len(urls)
           /\ \A k \in 1..Len(urls) :
                /\ extractFileId(urls[k]) = <<mailLog[j].attachments[k]>>
                /\ FileSize(mailLog[j].attachments[k]) <= MAX_ATTACHMENT_SIZE
                /\ [run |-> runOf[p], id |-> mailLog[j].id, k |-> k, url |-> urls[k],
                    status |-> "ok"] \in attachLog
    /\ \A a \in attachLog :
         (a.run = runOf[p] /\ a.status # "ok") =>
           /\ MailsOf(a.run, a.id) = {}
           /\ TrashesOf(a.run, a.id) = {}
           /\ PendingAt(a.id) # {}
           /\ NewHistoryOf(p, a.id) = {}
           /\ outcome[a.run][a.id] = "attachment"

C5_Witness ==
  \E p \in Runners :
    /\ RunDone(p)
    /\ \E j \in 1..Len(mailLog) :
         mailLog[j].run = runOf[p] /\ mailLog[j].sent /\ Len(mailLog[j].attachments) = 2
    /\ \E a \in attachLog : a.run = runOf[p] /\ a.status = "toolarge" /\ a.k = 2

\* C6 as amended: a mail is handed to the transport only for a record whose
\* resolved recipient fields yield an address and whose resolved body
\* reference is not empty; a record whose recipient fields are both empty
\* after template resolution is left pending, not archived, and nothing is
\* logged as an error or alerted for it.
C6_SendableOnly ==
  \A p \in Runners : runOf[p] >= 1 =>
    /\ \A j \in 1..Len(mailLog) :
         mailLog[j].run = runOf[p] =>
           LET row == Merged(RowOf(p, mailLog[j].id)) IN
           /\ parseEmailAddresses(row.distribution_emails) \o parseEmailAddresses(row.additional_emails) # << >>
           /\ ~IsBlank(row.email_body_template)
           /\ mailLog[j].to # << >>
    /\ \A k \in Visited(p) :
         LET row == data[p][k] IN
         (/\ ~templateNotFound(mapRowToObject(row.cells, Headers))
          /\ ~isEmptyRow(row.cells)
          /\ IsBlank(Merged(row).distribution_emails)
          /\ IsBlank(Merged(row).additional_emails)) =>
           /\ outcome[runOf[p]][row.id] = "validation"
           /\ MailsOf(runOf[p], row.id) = {}
           /\ \A j \in PendingAt(row.id) : pending[j] = row
           /\ PendingAt(row.id) # {}
           /\ NewHistoryOf(p, row.id) = {}
           /\ \A e \in errLog \cup alertLog : ~(e.run = runOf[p] /\ e.id = row.id)

C6_Witness ==
  \E p \in Runners : \E k \in Visited(p) :
    /\ outcome[runOf[p]][data[p][k].id] = "validation"
    /\ IsBlank(Merged(data[p][k]).distribution_emails)
    /\ IsBlank(Merged(data[p][k]).additional_emails)
    /\ ~IsBlank(Merged(data[p][k]).email_body_template)
    /\ ~IsBlank(Merged(data[p][k]).attachments_urls)

\* C6 as stated: a stored record with both recipient fields empty and every
\* other field filled is left pending, not archived and not reported as an
\* error (even when no external service fails).
C6_Original ==
  \A p \in Runners : (runOf[p] >= 1 /\ faults = 0) =>
    \A k \in Visited(p) :
      LET row == data[p][k] IN
      (/\ IsBlank(row.cells.distribution_emails)
       /\ IsBlank(row.cells.additional_emails)
       /\ \A h \in Headers \ {"distribution_emails", "additional_emails"} : ~IsBlank(row.cells[h])) =>
        /\ MailsOf(runOf[p], row.id) = {}
        /\ PendingAt(row.id) # {}
        /\ NewHistoryOf(p, row.id) = {}
        /\ \A e \in errLog \cup alertLog : ~(e.run = runOf[p] /\ e.id = row.id)

\* the run holds a merged copy of the current row
HoldsCopy(p) == pc[p] \in {"validate", "build", "attach", "send", "sent", "processed", "delete"}

\* C7: resolving a record against a found template leaves every non-empty
\* field of the record as it is and gives every empty field the template's
\* value.
C7_TemplateNeverOverwrites ==
  \A p \in Runners :
    (HoldsCopy(p) /\ templateKnown(Current(p).cells.template_label)) =>
      LET raw == mapRowToObject(Current(p).cells, Headers)
          template == getTemplateByLabel(raw.template_label)
      IN /\ DOMAIN emailRow[p] = Headers
         /\ \A h \in Headers :
              /\ ~IsBlank(raw[h]) => emailRow[p][h] = raw[h]
              /\ IsBlank(raw[h]) => emailRow[p][h] = template[h]

C7_Witness ==
  \E p \in Runners :
    /\ HoldsCopy(p)
    /\ templateKnown(Current(p).cells.template_label)
    /\ \E h \in Headers :
         /\ ~IsBlank(Current(p).cells[h])
         /\ ~IsBlank(getTemplateByLabel(Current(p).cells.template_label)[h])
         /\ getTemplateByLabel(Current(p).cells.template_label)[h] # Current(p).cells[h]
    /\ \E h \in Headers :
         /\ IsBlank(Current(p).cells[h])
         /\ ~IsBlank(emailRow[p][h])

C9_TrashOnlyAfterSend ==
  /\ \A j \in 1..Len(trashLog) : SentOk(trashLog[j].run, trashLog[j].id)
  /\ \A f \in trashed : \E j \in 1..Len(trashLog) : trashLog[j].ok /\ trashLog[j].file = <<f>>
  /\ \A p \in Runners : runOf[p] >= 1 =>
       /\ pc[p] \in {"attach", "send"} => TrashesOf(runOf[p], Current(p).id) = {}
       /\ \A k \in (IF pc[p] \in {"processed", "delete"} THEN idx[p] ELSE idx[p] + 1)..Len(data[p]) :
            LET row == data[p][k]
                urls == urlsOf(Merged(row))
            IN SentOk(runOf[p], row.id) =>
                 /\ Cardinality(TrashesOf(runOf[p], row.id)) = Len(urls)
                 /\ \A u \in 1..Len(urls) :
                      \E j \in TrashesOf(runOf[p], row.id) : trashLog[j].file = extractFileId(urls[u])

C9_Witness ==
  \E p \in Runners :
    /\ pc[p] = "processed"
    /\ sent[p]
    /\ Cardinality(TrashesOf(runOf[p], Current(p).id)) = 2
    /\ \A j \in TrashesOf(runOf[p], Current(p).id) : trashLog[j].ok

\* C10: when trashing an attachment fails after a successful send, every
\* other attachment of the record still gets its trash request, the send is
\* still reported as successful, and the record is archived (appended to
\* History and deleted from Pending, store failures aside).
C10_TrashFailureHarmless ==
  \A p \in Runners : runOf[p] >= 1 =>
    /\ (pc[p] = "processed" /\ \E j \in TrashesOf(runOf[p], Current(p).id) : ~trashLog[j].ok) =>
         /\ sent[p]
         /\ Cardinality(TrashesOf(runOf[p], Current(p).id)) = Len(urlsOf(emailRow[p]))
    /\ \A k \in Visited(p) :
         LET row == data[p][k] IN
         (\E j \in TrashesOf(runOf[p], row.id) : ~trashLog[j].ok) =>
           /\ Cardinality(TrashesOf(runOf[p], row.id)) = Len(urlsOf(Merged(row)))
           /\ outcome[runOf[p]][row.id] \in {"archived"} \cup StoreFailures
           /\ outcome[runOf[p]][row.id] = "archived" =>
                (NewHistoryOf(p, row.id) # {} /\ PendingAt(row.id) = {})

C10_Witness ==
  \E p \in Runners : \E k \in Visited(p) :
    /\ outcome[runOf[p]][data[p][k].id] = "archived"
    /\ \E i, j \in TrashesOf(runOf[p], data[p][k].id) :
         i < j /\ ~trashLog[i].ok /\ trashLog[j].ok
    /\ PendingAt(data[p][k].id) = {}

\* history rows of a record, mails the transport accepted for it
HistoryOf(id) == {j \in 1..Len(history) : history[j].id = id}
AcceptedMails(id) == {j \in 1..Len(mailLog) : mailLog[j].id = id /\ mailLog[j].sent}

\* C11: once a record is archived by a run, no later run hands it to the
\* transport, trashes for it, gives it an outcome or a History row, and it
\* is not pending again; a record no archive step failed for has at most one
\* accepted mail over all runs.
C11_ArchivedNeverResent ==
  \A id \in Ids :
    /\ \A r \in RunIds :
         outcome[r][id] = "archived" =>
           /\ PendingAt(id) = {}
           /\ Cardinality(HistoryOf(id)) =
                Cardinality({q \in RunIds : outcome[q][id] \in {"archived", "deleteError"}})
           /\ \A q \in RunIds :
                q > r => /\ MailsOf(q, id) = {}
                         /\ TrashesOf(q, id) = {}
                         /\ outcome[q][id] = "none"
    /\ (\A r \in RunIds : outcome[r][id] \notin StoreFailures) =>
         Cardinality(AcceptedMails(id)) <= 1

C11_Witness ==
  \E p \in Runners :
    /\ RunDone(p)
    /\ runOf[p] = 2
    /\ \E id \in Ids : outcome[1][id] = "archived" /\ AcceptedMails(id) # {}
    /\ \E id \in Ids : outcome[1][id] \in FailedOutcomes /\ outcome[2][id] \in FailedOutcomes

\* C12: every step of a send run or of template pre-application leaves the
\* History rows there are as they are, in their places; History changes only
\* by a row appended at its end.
C12_HistoryAppendOnly ==
  [][/\ Len(history') >= Len(history)
     /\ SubSeq(history', 1, Len(history)) = history]_vars

C12_Witness ==
  \E p \in Runners :
    /\ Len(history) = 2
    /\ history[1].datetime < history[2].datetime
    /\ runNo = 2
    /\ runOf[p] = 0
    /\ \E k \in 1..Len(pending) : pending[k].background # << >>

\* C13: in one run a record is handed to the transport at most once, and a
\* record that has its outcome in the run gets no further mail, attachment
\* lookup or outcome in that run.
C13_NoRetryWithinRun ==
  [][\A r \in RunIds : \A id \in Ids :
       /\ Cardinality(MailsOf(r, id)') <= 1
       /\ outcome[r][id] # "none" =>
            /\ outcome'[r][id] = outcome[r][id]
            /\ MailsOf(r, id)' = MailsOf(r, id)
            /\ {a \in attachLog' : a.run = r /\ a.id = id} = {a \in attachLog : a.run = r /\ a.id = id}]_vars

C13_Witness ==
  \E p \in Runners :
    /\ RunDone(p)
    /\ Len(data[p]) = 2
    /\ outcome[runOf[p]][data[p][2].id] = "transport"
    /\ Cardinality(MailsOf(runOf[p], data[p][2].id)) = 1
    /\ outcome[runOf[p]][data[p][1].id] \in {"body", "attachment"}
    /\ MailsOf(runOf[p], data[p][1].id) = {}

\* C14: a record whose pending delete failed after the History append is in
\* History (its stored fields) and in Pending (unchanged) when its run is
\* over, and the next run hands it to the transport again unless a service
\* fails for it before.
C14_ArchiveNotAtomic ==
  /\ \A p \in Runners : runOf[p] >= 1 =>
       \A k \in Visited(p) :
         outcome[runOf[p]][data[p][k].id] = "deleteError" =>
           /\ \E j \in NewHistoryOf(p, data[p][k].id) : history[j].cells = data[p][k].cells
           /\ \E j \in PendingAt(data[p][k].id) : pending[j] = data[p][k]
  /\ \A id \in Ids : \A r \in RunIds :
       (/\ outcome[r][id] = "deleteError"
        /\ r + 1 \in RunIds
        /\ outcome[r + 1][id] # "none") =>
          \/ MailsOf(r + 1, id) # {}
          \/ \E e \in errLog : e.run = r + 1 /\ e.id = id /\ e.kind \in {"body", "attachment"}

C14_Witness ==
  \E id \in Ids :
    /\ outcome[1][id] = "deleteError"
    /\ outcome[2][id] = "archived"
    /\ SentOk(1, id)
    /\ SentOk(2, id)
    /\ Cardinality(HistoryOf(id)) = 2

\* a step of template pre-application: the runner is idle before and after
PreApplicationStep ==
  /\ \A p \in Runners : pc[p] = "idle" /\ pc'[p] = "idle"
  /\ runNo' = runNo

\* C15: template pre-application sends no mail, appends nothing to History,
\* deletes no pending row and trashes nothing; a cell it changes was empty,
\* is in a row whose template was found, and gets the template's value.
C15_PreApplicationFrame ==
  [][PreApplicationStep =>
       /\ mailLog' = mailLog
       /\ history' = history
       /\ trashed' = trashed
       /\ trashLog' = trashLog
       /\ Len(pending') = Len(pending)
       /\ \A k \in 1..Len(pending) :
            /\ pending'[k].id = pending[k].id
            /\ \A h \in Headers :
                 pending'[k].cells[h] # pending[k].cells[h] =>
                   /\ IsBlank(pending[k].cells[h])
                   /\ templateKnown(pending[k].cells.template_label)
                   /\ pending'[k].cells[h] = getTemplateByLabel(pending[k].cells.template_label)[h]]_vars

C15_Witness ==
  \E p \in Runners :
    /\ runOf[p] = 0
    /\ pc[p] = "idle"
    /\ Len(data[p]) = Len(pending)
    /\ \E k \in 1..Len(pending) :
         /\ \E h \in Headers : IsBlank(data[p][k].cells[h]) /\ ~IsBlank(pending[k].cells[h])
         /\ \E h \in Headers :
              /\ ~IsBlank(data[p][k].cells[h])
              /\ ~IsBlank(getTemplateByLabel(data[p][k].cells.template_label)[h])
              /\ pending[k].cells[h] # getTemplateByLabel(data[p][k].cells.template_label)[h]

\* C16: when no write of a pre-application fails, every row whose
\* template_label names no template has the background and the note of the
\* flag and its cells as before, and every row after it is processed: its
\* empty cells hold the values of its template.
C16_MissingTemplateFlagged ==
  [][(PreApplicationStep /\ faults' = faults) =>
       \A k \in 1..Len(pending) :
         templateNotFound(pending[k].cells) =>
           /\ pending'[k].background = <<"#ffcccc">>
           /\ pending'[k].note = pending[k].cells.template_label
           /\ pending'[k].cells = pending[k].cells
           /\ \A j \in (k + 1)..Len(pending) :
                /\ templateNotFound(pending[j].cells) => pending'[j].background = <<"#ffcccc">>
                /\ templateKnown(pending[j].cells.template_label) =>
                     \A h \in Headers :
                       pending'[j].cells[h] =
                         IF /\ IsBlank(pending[j].cells[h])
                            /\ ~IsBlank(getTemplateByLabel(pending[j].cells.template_label)[h])
                         THEN getTemplateByLabel(pending[j].cells.template_label)[h]
                         ELSE pending[j].cells[h]]_vars

C16_Witness ==
  \E p \in Runners :
    /\ runOf[p] = 0
    /\ Len(data[p]) = 2
    /\ Len(pending) = 2
    /\ templateNotFound(data[p][1].cells)
    /\ data[p][1].background = << >>
    /\ pending[1].background = <<"#ffcccc">>
    /\ pending[1].cells = data[p][1].cells
    /\ pending[2].cells # data[p][2].cells

\* C17: whatever text JSON repair is called with, the empty text included,
\* the text it returns parses as an object.
C17_RepairAlwaysParses ==
  returned.fn = "sanitizeJsonText" => JSONparse(returned.value) # NoValue

\* the session ids a text holds
idsIn(t) == {sessionIdIn(t[k])[1] : k \in {j \in 1..Len(t) : sessionIdIn(t[j]) # NoValue}}

\* C18: for a text with two different session ids, extraction returns the
\* id that comes first in the text and logs the conflict.
C18_FirstIdAndConflictLogged ==
  (returned.fn = "parseSessionId" /\ Cardinality(idsIn(text)) >= 2) =>
    /\ returned.value # NoValue
    /\ \E k \in 1..Len(text) :
         /\ sessionIdIn(text[k]) = returned.value
         /\ \A j \in 1..(k - 1) : sessionIdIn(text[j]) = NoValue
    /\ "Multiple different session IDs found" \in returned.log

RECURSIVE renderLenient(_, _)
renderLenient(content, values) ==
  IF content = << >> THEN << >>
  ELSE IF Head(content) \in VarRefs
       THEN (IF VarOf(Head(content)) \in DOMAIN values
             THEN escapeHtml(values[VarOf(Head(content))]) ELSE << >>)
            \o renderLenient(Tail(content), values)
       ELSE <<Head(content)>> \o renderLenient(Tail(content), values)

\* the body template of the row is a file whose content names a variable
\* that has no value, or its subject template does
missingVariable(row) ==
  \/ /\ extractFileId(row.email_body_template) # NoValue
     /\ evaluateThrows(FileContent(extractFileId(row.email_body_template)[1]), getTemplateValues(row))
  \/ evaluateThrows(row.email_subject_template, getTemplateValues(row))

\* C20: a record that is ready to send and whose body or subject template
\* names a variable without a value is, when no service fails, handed to the
\* transport with the body and the subject rendered with that variable empty.
C20_MissingVariableRendersEmpty ==
  \A p \in Runners : (runOf[p] >= 1 /\ faults = 0) =>
    \A k \in Visited(p) :
      LET row == Merged(data[p][k])
          values == getTemplateValues(row)
      IN (/\ ~isEmptyRow(data[p][k].cells)
          /\ ~templateNotFound(mapRowToObject(data[p][k].cells, Headers))
          /\ validateRow(row)
          /\ hasRecipients(recipientsOf(row))
          /\ extractFileId(row.email_body_template) # NoValue
          /\ ~scanThrew(attachScan(urlsOf(row), {}))
          /\ missingVariable(row)) =>
           \E j \in MailsOf(runOf[p], data[p][k].id) :
             /\ mailLog[j].body =
                  renderLenient(FileContent(extractFileId(row.email_body_template)[1]), values)
             /\ mailLog[j].subject =
                  (IF decodeHtmlEntities(Trim(renderLenient(row.email_subject_template, values))) = << >>
                   THEN DEFAULT_SUBJECT
                   ELSE decodeHtmlEntities(Trim(renderLenient(row.email_subject_template, values))))

\* C21: combining a text with itself gives the addresses of combining the
\* text alone, and no address is in the combined list twice.
C21_CombineIdempotent ==
  returned.fn = "combineEmailAddresses" =>
    /\ returned.value = combineEmailAddresses(text, Blank)
    /\ \A i, j \in 1..Len(returned.value) : returned.value[i] = returned.value[j] => i = j
    /\ \A k \in 1..Len(text) :
         toLowerCase(text[k]) \in Addresses =>
           \E i \in 1..Len(returned.value) : returned.value[i] = toLowerCase(text[k])

C21_Witness ==
  /\ returned.fn = "combineEmailAddresses"
  /\ text = <<"b@x", "A@X", "a@x">>
  /\ returned.value = <<"b@x", "a@x">>

\* the stated order of the replacements: doubled backslashes are collapsed
\* first, escaped quotes are un-escaped second
referenceCleanedJson(t) ==
  wrapBraces(Trim(replaceLineBreaks(unescapeQuotes(collapseBackslashes(t)))))

\* C25: for every text, the text JSON repair hands to the parser is the
\* result of (a) collapsing doubled backslashes, (b) un-escaping escaped
\* quotes, (c) replacing line breaks, (d) trimming, (e) adding braces.
C25_RepairStepOrder ==
  (returned.fn = "sanitizeJsonText" /\ ~IsBlank(text)) =>
    returned.cleaned = referenceCleanedJson(text)

\* an invocation of processEmailDistributions that ends without a snapshot
OpenFailureStep ==
  /\ runNo' = runNo + 1
  /\ \A p \in Runners : pc[p] = "idle" /\ pc'[p] = "idle"

\* the part of C22 about the abort: no mail, no trash, no store write, no
\* record taken up
OpenFailureAborts ==
  [][OpenFailureStep =>
       /\ stores' = stores
       /\ mailLog' = mailLog /\ trashLog' = trashLog /\ attachLog' = attachLog
       /\ outcome' = outcome
       /\ \E e \in errLog' \ errLog : e.kind = "open"]_vars

\* C22: an invocation that cannot open the record store sends no mail,
\* trashes no file, writes no store, and its failure is shown to the
\* operator.
C22_OpenFailureReported ==
  [][OpenFailureStep =>
       /\ stores' = stores
       /\ mailLog' = mailLog /\ trashLog' = trashLog
       /\ alertLog' # alertLog]_vars

\* how far the run has taken the record it is at
Rank(p) ==
  CASE pc[p] = "validate" -> 1
    [] pc[p] = "build" -> 2
    [] pc[p] = "attach" -> 3
    [] pc[p] = "send" -> 4
    [] pc[p] = "sent" -> 5
    [] pc[p] = "processed" -> 6
    [] pc[p] = "delete" -> 7
    [] OTHER -> 0

\* every attachment URL of the record was fetched
AllFetched(p, row) ==
  /\ Len(attachments[p]) = Len(urlsOf(row))
  /\ \A k \in 1..Len(urlsOf(row)) :
       \E a \in attachLog : a.run = runOf[p] /\ a.id = Current(p).id /\ a.k = k /\ a.status = "ok"

\* the record the run is at: what was done for it, and what was not yet
StepsOfCurrent(p) ==
  LET r == runOf[p]
      id == Current(p).id
      row == emailRow[p]
  IN /\ Rank(p) >= 1 => /\ ~isEmptyRow(Current(p).cells)
                        /\ ~templateNotFound(mapRowToObject(Current(p).cells, Headers))
                        /\ row = Merged(Current(p))
     /\ Rank(p) >= 2 => validateRow(row)
     /\ Rank(p) >= 3 => hasRecipients(recipientsOf(row)) /\ hasBody(buildEmailBody(row))
     /\ Rank(p) >= 4 => AllFetched(p, row)
     /\ Rank(p) >= 5 => Cardinality(MailsOf(r, id)) = 1 /\ (sent[p] <=> SentOk(r, id))
     /\ Rank(p) >= 6 => sent[p] /\ Cardinality(TrashesOf(r, id)) = Len(urlsOf(row))
     /\ Rank(p) >= 7 => Cardinality(NewHistoryOf(p, id)) = 1
     /\ (Rank(p) >= 1 /\ Rank(p) < 5) => MailsOf(r, id) = {}
     /\ (Rank(p) >= 1 /\ Rank(p) < 6) => TrashesOf(r, id) = {}
     /\ (Rank(p) >= 1 /\ Rank(p) < 7) => NewHistoryOf(p, id) = {} /\ PendingAt(id) # {}

\* a record the run has left: the steps its outcome stands for
StepsOfVisited(p, k) ==
  LET r == runOf[p]
      id == data[p][k].id
      o == outcome[r][id]
      row == Merged(data[p][k])
  IN /\ o \in {"empty", "template", "validation", "norecipients", "body", "attachment"} =>
          MailsOf(r, id) = {} /\ TrashesOf(r, id) = {} /\ NewHistoryOf(p, id) = {}
     /\ o \in {"validation", "norecipients", "body", "attachment", "transport",
               "appendError", "deleteError", "archived"} =>
          ~templateNotFound(mapRowToObject(data[p][k].cells, Headers))
     /\ o \in {"norecipients", "body", "attachment", "transport",
               "appendError", "deleteError", "archived"} => validateRow(row)
     /\ o \in {"attachment", "transport", "appendError", "deleteError", "archived"} =>
          hasRecipients(recipientsOf(row)) /\ hasBody(buildEmailBody(row))
     /\ o \in {"transport", "appendError", "deleteError", "archived"} =>
          /\ Cardinality(MailsOf(r, id)) = 1
          /\ \A j \in MailsOf(r, id) : Len(mailLog[j].attachments) = Len(urlsOf(row))
     /\ o = "transport" =>
          ~SentOk(r, id) /\ TrashesOf(r, id) = {} /\ NewHistoryOf(p, id) = {}
     /\ o \in {"appendError", "deleteError", "archived"} =>
          SentOk(r, id) /\ Cardinality(TrashesOf(r, id)) = Len(urlsOf(row))
     /\ o = "appendError" => NewHistoryOf(p, id) = {} /\ PendingAt(id) # {}
     /\ o \in {"deleteError", "archived"} => Cardinality(NewHistoryOf(p, id)) = 1
     /\ o = "archived" => PendingAt(id) = {}
     /\ o # "archived" => PendingAt(id) # {}

StepsInOrder ==
  \A p \in Runners :
    /\ StepsOfCurrent(p)
    /\ \A k \in Visited(p) : StepsOfVisited(p, k)

\* what a step that sends, trashes, appends or deletes finds done
StepFindsEarlierDone ==
  /\ mailLog' # mailLog => \E p \in Runners : Rank(p) = 4 /\ StepsOfCurrent(p)
  /\ trashLog' # trashLog => \E p \in Runners : Rank(p) = 5 /\ sent[p]
  /\ history' # history =>
       \E p \in Runners : /\ Rank(p) \in {5, 6} /\ sent[p]
                          /\ Cardinality(TrashesOf(runOf[p], Current(p).id))
                               = Len(urlsOf(emailRow[p]))
  /\ Len(pending') < Len(pending) =>
       \E p \in Runners : Rank(p) = 7 /\ NewHistoryOf(p, Current(p).id) # {}

\* C23: for every record of a send run the steps happen in the order
\* template resolution, validation, body rendering, attachment resolution,
\* send, attachment disposal, History append, pending delete; a step happens
\* for a record only after every earlier step succeeded for it.
C23_StepOrder == []StepsInOrder /\ [][StepFindsEarlierDone]_vars

C23_Witness ==
  \E p \in Runners :
    /\ RunDone(p) /\ Len(data[p]) = 2
    /\ outcome[runOf[p]][data[p][2].id] = "archived"
    /\ Cardinality(TrashesOf(runOf[p], data[p][2].id)) = 2
    /\ outcome[runOf[p]][data[p][1].id] = "transport"
    /\ Len(urlsOf(Merged(data[p][1]))) >= 1

\* a stored row without any text
AllBlank(row) == \A h \in Headers : row.cells[h] = << >>

\* the run is at an all-blank row and leaves it
LeavesBlankRow(p) ==
  /\ pc[p] = "loop" /\ idx[p] >= 1
  /\ AllBlank(Current(p))
  /\ pc'[p] # pc[p] \/ idx'[p] # idx[p]

\* C24: an all-blank pending row is skipped by the send run: no template
\* lookup, no mail, no alert, no log entry, no store changes, and the run
\* goes on with the row before it.
C24_BlankRowSkipped ==
  /\ [](\A p \in Runners : \A k \in Visited(p) :
          AllBlank(data[p][k]) =>
            /\ outcome[runOf[p]][data[p][k].id] = "empty"
            /\ MailsOf(runOf[p], data[p][k].id) = {}
            /\ TrashesOf(runOf[p], data[p][k].id) = {}
            /\ \A e \in errLog \cup alertLog \cup attachLog :
                 ~(e.run = runOf[p] /\ e.id = data[p][k].id)
            /\ NewHistoryOf(p, data[p][k].id) = {}
            /\ \E j \in PendingAt(data[p][k].id) : pending[j] = data[p][k])
  /\ [][\A p \in Runners :
          LeavesBlankRow(p) =>
            /\ stores' = stores /\ logs' = logs
            /\ emailRow'[p] = NoValue /\ sent' = sent
            /\ pc'[p] = "loop" /\ idx'[p] = idx[p] - 1]_vars

C24_Witness ==
  \E p \in Runners :
    /\ RunDone(p) /\ Len(data[p]) = 2
    /\ AllBlank(data[p][2]) /\ outcome[runOf[p]][data[p][2].id] = "empty"
    /\ outcome[runOf[p]][data[p][1].id] = "archived"
    /\ Len(pending) = 1 /\ pending[1] = data[p][2]

\* the send run of p is over and none of its records met a store failure
CleanRunDone(p) ==
  /\ RunDone(p)
  /\ \A k \in 1..Len(data[p]) : outcome[runOf[p]][data[p][k].id] \notin StoreFailures

\* mails of run r the transport accepted
SuccessfulSends(r) == {j \in 1..Len(mailLog) : mailLog[j].run = r /\ mailLog[j].sent}

\* C27: at the end of a send run without store failure every non-empty row
\* of the snapshot is in exactly one place: still pending, unchanged and in
\* the order of the snapshot, or in History with a timestamp; as many rows
\* left Pending as were appended to History as mails were sent.
C27_Conservation ==
  \A p \in Runners : CleanRunDone(p) =>
    LET r == runOf[p]
        Archived(row) == outcome[r][row.id] = "archived"
        Kept(row) == ~Archived(row)
    IN /\ \A k \in 1..Len(data[p]) :
            LET row == data[p][k] IN
            ~AllBlank(row) =>
              IF Archived(row)
              THEN /\ PendingAt(row.id) = {}
                   /\ Cardinality(NewHistoryOf(p, row.id)) = 1
                   /\ \A j \in NewHistoryOf(p, row.id) :
                        history[j].cells = row.cells /\ history[j].datetime \in 1..clock
              ELSE /\ Cardinality(PendingAt(row.id)) = 1
                   /\ NewHistoryOf(p, row.id) = {}
       /\ pending = SelectSeq(data[p], Kept)
       /\ Len(data[p]) - Len(pending) = Len(history) - histMark[p]
       /\ Len(history) - histMark[p] = Cardinality(SuccessfulSends(r))

C27_Witness ==
  \E p \in Runners :
    /\ CleanRunDone(p) /\ Len(data[p]) = 2
    /\ outcome[runOf[p]][data[p][1].id] = "archived"
    /\ outcome[runOf[p]][data[p][2].id] = "transport"
    /\ Len(pending) = 1 /\ Len(history) - histMark[p] = 1

\* the History append of the record p is at throws in this step
AppendThrows(p) ==
  /\ Rank(p) \in {5, 6} /\ sent[p]
  /\ outcome'[runOf[p]][Current(p).id] = "appendError"

\* C28: when the History append throws after a successful send, the pending
\* delete is not done and the run goes on with the next record; the record
\* stays pending and has no History row, although its mail was sent and its
\* attachments were trashed.
C28_AppendFailureContained ==
  /\ [](\A p \in Runners : runOf[p] >= 1 =>
          /\ \A k \in Visited(p) :
               outcome[runOf[p]][data[p][k].id] = "appendError" =>
                 /\ SentOk(runOf[p], data[p][k].id)
                 /\ Cardinality(TrashesOf(runOf[p], data[p][k].id))
                      = Len(urlsOf(Merged(data[p][k])))
                 /\ NewHistoryOf(p, data[p][k].id) = {}
                 /\ \E j \in PendingAt(data[p][k].id) : pending[j] = data[p][k]
                 /\ \E e \in errLog : /\ e.run = runOf[p] /\ e.id = data[p][k].id
                                      /\ e.kind = "row" /\ e.detail = <<"appendRow">>
          /\ pc[p] = "idle" =>
               \A k \in 1..Len(data[p]) : outcome[runOf[p]][data[p][k].id] # "none")
  /\ [][\A p \in Runners :
          AppendThrows(p) =>
            /\ pending' = pending /\ history' = history
            /\ pc'[p] = "loop" /\ idx'[p] = idx[p] - 1]_vars

C28_Witness ==
  \E p \in Runners :
    /\ RunDone(p) /\ Len(data[p]) = 2
    /\ outcome[runOf[p]][data[p][2].id] = "appendError"
    /\ Cardinality(TrashesOf(runOf[p], data[p][2].id)) = 2
    /\ \A j \in TrashesOf(runOf[p], data[p][2].id) : trashLog[j].ok
    /\ outcome[runOf[p]][data[p][1].id] = "archived"
    /\ Len(pending) = 1 /\ pending[1] = data[p][2]

\* a token of the text between delimiters is empty once trimmed
HasEmptyToken(t) == \E k \in 1..Len(Split(t)) : Trim(Split(t)[k]) = << >>

\* C29: a record whose attachments_urls is not empty but has an empty token
\* (a leading or trailing delimiter, or blanks only) is not sent and stays
\* pending; when the run gets as far as the attachments, the empty token is
\* the invalid reference that stops it, unless a file before it did.
C29_EmptyTokenBlocksSend ==
  \A p \in Runners : \A k \in Visited(p) :
    LET r == runOf[p]
        id == data[p][k].id
        found == ~templateNotFound(mapRowToObject(data[p][k].cells, Headers))
        row == IF found THEN Merged(data[p][k]) ELSE mapRowToObject(data[p][k].cells, Headers)
    IN (~IsBlank(row.attachments_urls) /\ HasEmptyToken(row.attachments_urls)) =>
         /\ MailsOf(r, id) = {}
         /\ TrashesOf(r, id) = {}
         /\ NewHistoryOf(p, id) = {}
         /\ \E j \in PendingAt(id) : pending[j] = data[p][k]
         /\ outcome[r][id] \in {"template", "validation", "norecipients", "body", "attachment"}
         /\ (/\ found /\ validateRow(row) /\ hasRecipients(recipientsOf(row))
             /\ outcome[r][id] # "body") =>
              /\ outcome[r][id] = "attachment"
              /\ \E a \in attachLog :
                   /\ a.run = r /\ a.id = id
                   /\ \/ a.url = << >> /\ a.status = "invalid"
                      \/ a.url # << >> /\ a.status \in {"unreachable", "toolarge"}

C29_Witness ==
  \E p \in Runners :
    /\ RunDone(p) /\ Len(data[p]) = 2
    /\ data[p][1].cells.attachments_urls = <<"F1", ",">>
    /\ data[p][2].cells.attachments_urls = <<" ", ";", "F3">>
    /\ outcome[runOf[p]][data[p][1].id] = "attachment"
    /\ outcome[runOf[p]][data[p][2].id] = "attachment"
    /\ \E a \in attachLog : a.id = data[p][1].id /\ a.k = 2 /\ a.status = "invalid"
    /\ \E a \in attachLog : a.id = data[p][2].id /\ a.k = 1 /\ a.status = "invalid"
    /\ pending = data[p] /\ mailLog = << >>

\* what a send run hands to the mail transport for a stored row, given that
\* the services it calls work: nothing for an empty row, a row whose
\* template is missing, or a row that is not ready
HandedOver(cells) ==
  LET raw == mapRowToObject(cells, Headers) IN
  IF isEmptyRow(cells) THEN <<"skipped">>
  ELSE IF templateNotFound(raw) THEN <<"template not found">>
  ELSE LET row == applyTemplateIfNeeded(raw) IN
       IF ~validateRow(row) \/ ~hasRecipients(recipientsOf(row)) THEN <<"not ready">>
       ELSE <<"mail", recipientsOf(row), getFinalSubject(row), getTemplateValues(row),
              buildEmailBody(row), urlsOf(row)>>

\* C30: template pre-application does not change what a send run hands to
\* the mail transport: every mail of a run has the recipients, subject, body
\* and attachments that follow from the stored row, and a pre-application
\* step leaves what follows from every stored row as it was.
C30_PreApplicationKeepsMail ==
  /\ [](\A p \in Runners : \A k \in Visited(p) :
          \A j \in MailsOf(runOf[p], data[p][k].id) :
            LET h == HandedOver(data[p][k].cells) IN
            /\ h[1] = "mail"
            /\ mailLog[j].to = h[2] /\ mailLog[j].subject = h[3] /\ mailLog[j].body = h[5]
            /\ Len(mailLog[j].attachments) = Len(h[6])
            /\ \A a \in 1..Len(h[6]) : <<mailLog[j].attachments[a]>> = extractFileId(h[6][a]))
  /\ [][PreApplicationStep =>
          /\ Len(pending') = Len(pending)
          /\ \A k \in 1..Len(pending) :
               /\ pending'[k].id = pending[k].id
               /\ HandedOver(pending'[k].cells) = HandedOver(pending[k].cells)]_vars

C30_Witness ==
  \E p \in Runners : \E k \in Visited(p) : \E j \in MailsOf(runOf[p], data[p][k].id) :
    /\ data[p][k].cells.template_label = <<"T1">>
    /\ data[p][k].cells.distribution_emails = <<"a@x">>
    /\ data[p][k].cells.attachments_urls = <<"F3">>
    /\ mailLog[j].sent
    /\ mailLog[j].to = <<"a@x">>
    /\ mailLog[j].attachments = <<"F3">>

\* the pending sheet without its row j
Without(sheet, j) ==
  [k \in 1..(Len(sheet) - 1) |-> IF k < j THEN sheet[k] ELSE sheet[k + 1]]

\* the delete of run p removes a record other than the one p has sent
DeletesOtherRecord(p) ==
  /\ Rank(p) = 7
  /\ \E j \in 1..Len(pending) :
       pending' = Without(pending, j) /\ pending[j].id # Current(p).id

\* a record a run has archived is handed to the transport by a later run
SentByBoth ==
  \E id \in Ids : \E r1, r2 \in RunIds :
    /\ r1 < r2
    /\ outcome[r1][id] = "archived" /\ SentOk(r1, id)
    /\ MailsOf(r2, id) # {}

\* C26: two send runs can be in progress on the same pending sheet, and
\* then a run can delete a record other than the one it sent, and a record
\* can be sent by both runs; neither happens when no run has started while
\* another was in progress.
C26_OverlapUnsafe ==
  /\ [](SentByBoth => overlap)
  /\ [][(\E p \in Runners : DeletesOtherRecord(p)) => overlap]_vars

\* both runs have sent record 1 and the second delete has removed record 2,
\* which no run has sent
C26_Witness ==
  /\ overlap
  /\ \E a, b \in Ids :
       /\ a # b
       /\ SentOk(1, a) /\ SentOk(2, a)
       /\ Cardinality({j \in 1..Len(history) : history[j].id = a}) = 2
       /\ outcome[1][b] = "validation" /\ outcome[2][b] = "validation"
       /\ \A r \in RunIds : MailsOf(r, b) = {}
       /\ PendingAt(b) = {}
       /\ \A j \in 1..Len(history) : history[j].id # b

====
